---- MODULE Spec2Model ----
(***************************************************************************)
(* Video catalog core of kv-be-python-fastapi-dataapi-table: submission,   *)
(* the background metadata pass, owner edits, view counting and ratings,   *)
(* modelled against the Content Store (videos, video_ratings_by_user,      *)
(* video_ratings, video_activity, latest_videos).                          *)
(*                                                                         *)
(* Every coroutine is cut at its awaits on the store or on the provider:   *)
(* one action is one store operation (or one provider call) together with  *)
(* the synchronous code that follows it up to the next await.              *)
(***************************************************************************)
EXTENDS Integers, Sequences, FiniteSets, TLC

\* ------------------------------------------------------------------ bounds
MaxVideos == 1      \* video ids in use
MaxCalls == 3       \* calls of the service started in one behaviour, of all kinds
MaxPage == 2        \* page numbers asked of a search
MaxPageSize == 2    \* page sizes asked of a search
MaxCorpus == 7      \* rows a vector sort can rank
MaxText == 5        \* characters of a text handed to the token clip
TokenLimit == 2     \* the token limit (512 in the code), scaled to the texts

VideoIds == 1..MaxVideos
PassIds == 1..MaxCalls
ViewIds == 1..MaxCalls
RateIds == 1..MaxCalls
Users == {"u1", "u2"}

\* ------------------------------------------------------------- enumerations
\* VideoStatusEnum; Absent stands for a row that has no status key at all.
PENDING == "PENDING"
PROCESSING == "PROCESSING"
READY == "READY"
ERROR == "ERROR"
Absent == "absent"
VideoStatusEnum == {PENDING, PROCESSING, READY, ERROR}

\* Store deployments the code distinguishes:
\*   "mock"       an AsyncMock/MagicMock test double (isinstance check), keeps every key
\*   "collection" a real schemaless collection, keeps every key
\*   "table"      a real fixed-schema table, rejects keys outside its schema
StoreKinds == {"mock", "collection", "table"}

VARIABLES
    storeKind,        \* which kind of store get_table hands out
    supportsInc,      \* whether the store accepts the $inc update operator
    inlineDisabled,   \* settings.INLINE_METADATA_DISABLED
    videos,           \* videos table: VideoIds -> row
    latest,           \* latest_videos table: set of video ids inserted
    activity,         \* video_activity table: VideoIds -> number of logged views
    ratingsByUser,    \* video_ratings_by_user: <<video, user>> -> 0 (no row) or 1..5
    ratingSummary,    \* video_ratings: VideoIds -> [exists, rating_counter, rating_total]
    submitLog,        \* outcome of the latest submit_new_video call
    pass,             \* PassIds -> coroutine state of a process_video_submission call
    view,             \* ViewIds -> coroutine state of a record_video_view call
    rate,             \* RateIds -> coroutine state of a rating call
    calls,            \* number of calls started so far
    overlap,          \* history: kinds of call of which two were ever in flight together
    resolve,          \* state of the latest fetch_youtube_metadata call
    search,           \* the latest semantic search: its inputs and its outcome
    clip,             \* the text handed to the token clips and what they returned
    degrade,          \* the latest store operation run under its rejection handler
    edit,             \* history: the latest update_video_details call
    extract           \* the URL handed to extract_youtube_video_id and the id it gave

vars == <<storeKind, supportsInc, inlineDisabled, videos, latest, activity,
          ratingsByUser, ratingSummary, submitLog, pass, view, rate, calls, overlap,
          resolve, search, clip, degrade, edit, extract>>

cfgVars == <<storeKind, supportsInc, inlineDisabled>>

\* The tables and the calls of the catalogue's operations.
catalogVars == <<videos, latest, activity, ratingsByUser, ratingSummary, submitLog,
                 pass, view, rate, overlap, edit>>

\* State of the helper functions, which no catalogue operation of the model touches.
libVars == <<resolve, search, clip, degrade, extract>>

\* ------------------------------------------------------------------- rows
\* A row of the videos table.  exists = FALSE is "find_one returns None".
\* "" is an absent / empty column; views defaults to 0 when the column is absent.
NoDoc == [exists |-> FALSE, status |-> Absent, name |-> "", description |-> "",
          preview_image_location |-> "", tags |-> "", updatedAt |-> "",
          views |-> 0, totalRatingsCount |-> 0, averageRating |-> <<0, 0>>]

\* The row an upsert creates before its update is applied: the key only.
EmptyDoc == [NoDoc EXCEPT !.exists = TRUE]

isMock == storeKind = "mock"

\* _VIDEO_TABLE_ALLOWED_COLUMNS, restricted to the columns the model carries.
_VIDEO_TABLE_ALLOWED_COLUMNS ==
    {"videoid", "added_date", "category", "content_features", "content_rating",
     "description", "language", "location", "location_type", "name",
     "preview_image_location", "tags", "userid", "views"}

\* _filter_video_columns: the payload restricted to the allow-list.
_filter_video_columns(payload) ==
    [k \in (DOMAIN payload) \cap _VIDEO_TABLE_ALLOWED_COLUMNS |-> payload[k]]

\* _prepare_video_doc: filter, then serialise (values are already plain here).
_prepare_video_doc(payload) == _filter_video_columns(payload)

\* update_one(filter, {"$set": set}) without upsert: no row, no effect.
SetFields(doc, set) ==
    IF doc.exists
    THEN [f \in DOMAIN doc |-> IF f \in DOMAIN set THEN set[f] ELSE doc[f]]
    ELSE doc

\* Whether the store takes a write of these keys: a fixed-schema table answers
\* UNKNOWN_TABLE_COLUMNS for a key outside its schema.
AcceptsColumns(keys) == storeKind # "table" \/ keys \subseteq _VIDEO_TABLE_ALLOWED_COLUMNS

\* ---------------------------------------------------------- URL extraction
\* A URL is a sequence of tokens: scheme, "www.", host and path prefixes are one
\* token each, every other character is a token of its own.
Schemes == {"http://", "https://"}

\* The character class [A-Za-z0-9_-], by representatives.
IdChars == {"a", "Z", "9", "_", "-"}

\* Length of the captured group: {11} in every pattern.
IdLen == 11

\* _YOUTUBE_PATTERNS, in list order: the host token and the path token that must
\* follow the optional scheme and the optional "www.".
_YOUTUBE_PATTERNS ==
    << [host |-> "youtu.be/", path |-> ""],
       [host |-> "youtube.com/", path |-> "watch?v="],
       [host |-> "youtube.com/", path |-> "embed/"],
       [host |-> "youtube.com/", path |-> "v/"],
       [host |-> "youtube.com/", path |-> "shorts/"] >>

None == <<>>

Drop(s, n) == SubSeq(s, n + 1, Len(s))

StripOpt(s, toks) == IF Len(s) > 0 /\ s[1] \in toks THEN Drop(s, 1) ELSE s

\* A match that takes any host token where the pattern names one.
PatternMatchAnyHost(pattern, url) ==
    LET s1 == StripOpt(url, Schemes)
        s2 == StripOpt(s1, {"www."})
        s3 == IF Len(s2) > 0 THEN Drop(s2, 1) ELSE <<"!">>
        s4 == IF pattern.path = "" THEN s3
              ELSE IF Len(s3) > 0 /\ s3[1] = pattern.path THEN Drop(s3, 1) ELSE <<"!">>
    IN  IF Len(s4) >= IdLen /\ \A i \in 1..IdLen : s4[i] \in IdChars
        THEN SubSeq(s4, 1, IdLen)
        ELSE None

\* A match that insists on https://.
PatternMatchHttpsOnly(pattern, url) ==
    LET s1 == IF Len(url) > 0 /\ url[1] = "https://" THEN Drop(url, 1) ELSE <<"!">>
        s2 == StripOpt(s1, {"www."})
        s3 == IF Len(s2) > 0 /\ s2[1] = pattern.host THEN Drop(s2, 1) ELSE <<"!">>
        s4 == IF pattern.path = "" THEN s3
              ELSE IF Len(s3) > 0 /\ s3[1] = pattern.path THEN Drop(s3, 1) ELSE <<"!">>
    IN  IF Len(s4) >= IdLen /\ \A i \in 1..IdLen : s4[i] \in IdChars
        THEN SubSeq(s4, 1, IdLen)
        ELSE None

\* pattern.match(url): anchored at the start, free at the end.  The captured id,
\* or None.
PatternMatch(pattern, url) ==
    LET s1 == StripOpt(url, Schemes)
        s2 == StripOpt(s1, {"www."})
        s3 == IF Len(s2) > 0 /\ s2[1] = pattern.host THEN Drop(s2, 1) ELSE <<"!">>
        s4 == IF pattern.path = "" THEN s3
              ELSE IF Len(s3) > 0 /\ s3[1] = pattern.path THEN Drop(s3, 1) ELSE <<"!">>
    IN  IF Len(s4) >= IdLen /\ \A i \in 1..IdLen : s4[i] \in IdChars
        THEN SubSeq(s4, 1, IdLen)
        ELSE None

RECURSIVE FirstMatch(_, _)
FirstMatch(i, url) ==
    IF i > Len(_YOUTUBE_PATTERNS) THEN None
    ELSE IF PatternMatch(_YOUTUBE_PATTERNS[i], url) # None
         THEN PatternMatch(_YOUTUBE_PATTERNS[i], url)
         ELSE FirstMatch(i + 1, url)

\* extract_youtube_video_id: first pattern that matches wins.
extract_youtube_video_id(youtube_url) == FirstMatch(1, youtube_url)

Id11 == <<"a", "Z", "9", "_", "-", "a", "a", "a", "a", "a", "a">>

\* The URLs Submit is called with.  Supported shapes:
ValidUrls ==
    { <<"https://", "youtu.be/">> \o Id11,
      <<"http://", "www.", "youtube.com/", "watch?v=">> \o Id11 }

\* Not a supported shape: a foreign host in front of an 11-character path, and
\* an id that is one character short.
InvalidUrls ==
    { <<"https://", "example.com/">> \o Id11,
      <<"https://", "youtu.be/">> \o SubSeq(Id11, 1, IdLen - 1) }

SubmitUrls == ValidUrls \cup InvalidUrls

\* ------------------------------------------------------------------ Submit
\* Outcomes of fetch_youtube_metadata: MetadataFetchError, the Data API's rich
\* answer, oEmbed's title and thumbnail.
MetaFail == [ok |-> FALSE, title |-> "", description |-> "", thumbnail_url |-> "", tags |-> ""]
MetaRich == [ok |-> TRUE, title |-> "T", description |-> "D", thumbnail_url |-> "P", tags |-> "G"]
MetaLight == [ok |-> TRUE, title |-> "T", description |-> "", thumbnail_url |-> "P", tags |-> ""]
NoMeta == [MetaFail EXCEPT !.ok = TRUE]
InlineMetaResults == {MetaFail, MetaRich, MetaLight}

\* request.title: absent ("") or supplied.
SubmitTitles == {"", "Mine"}

HTTP_202_ACCEPTED == 202
HTTP_400_BAD_REQUEST == 400
HTTP_502_BAD_GATEWAY == 502

\* call: the ordinal of the call that left this outcome (0: no Submit yet).
\* meta: how the inline fetch_youtube_metadata ended ("none": not called).
NoSubmit == [call |-> 0, code |-> 0, url |-> None, meta |-> "none", inserts |-> 0,
             videoid |-> 0, status |-> Absent]

\* new_video.model_dump(by_alias=False, exclude_none=True) plus content_features:
\* description and preview_image_location only when not None.
FullDoc(name, meta, status) ==
    LET keys == {"videoid", "userid", "added_date", "name", "tags", "location",
                 "location_type", "youtubeVideoId", "updatedAt", "status",
                 "viewCount", "totalRatingsCount", "is_deleted", "content_features"}
                \cup (IF meta.description # "" THEN {"description"} ELSE {})
                \cup (IF meta.thumbnail_url # "" THEN {"preview_image_location"} ELSE {})
    IN  [k \in keys |->
            CASE k = "name" -> name
              [] k = "description" -> meta.description
              [] k = "preview_image_location" -> meta.thumbnail_url
              [] k = "tags" -> meta.tags
              [] k = "status" -> status
              [] k = "updatedAt" -> "now"
              [] k \in {"viewCount", "totalRatingsCount"} -> 0
              [] OTHER -> "x"]

\* The id uuid4() yields: the next id that no row carries yet.
FreshIds == {v \in VideoIds : ~videos[v].exists /\ \A w \in VideoIds : w < v => videos[w].exists}

\* A Submit that goes on without metadata when the fetch fails.
submit_new_video_lenient(youtubeUrl, title, fetched) ==
    LET youtube_id == extract_youtube_video_id(youtubeUrl)
        metadata_enabled == ~inlineDisabled
        fetches == metadata_enabled /\ ~isMock
        meta == IF fetches THEN fetched ELSE NoMeta
        resolved_name == IF title # "" THEN title
                         ELSE IF fetches THEN meta.title ELSE "Untitled Video"
        status == IF isMock THEN PENDING ELSE READY
        video_doc == FullDoc(resolved_name, meta, status)
        accepted == AcceptsColumns(DOMAIN video_doc)
        stored == IF accepted THEN video_doc ELSE _prepare_video_doc(video_doc)
    IN  /\ calls < MaxCalls
        /\ calls' = calls + 1
        /\ UNCHANGED <<cfgVars, libVars, edit, activity, ratingsByUser, ratingSummary, pass, view, rate, overlap>>
        /\ IF youtube_id = None
           THEN /\ submitLog' = [NoSubmit EXCEPT !.call = calls + 1, !.code = HTTP_400_BAD_REQUEST,
                                                 !.url = youtubeUrl]
                /\ UNCHANGED <<videos, latest>>
           ELSE \E v \in FreshIds :
                /\ videos' = [videos EXCEPT ![v] = SetFields(EmptyDoc, stored)]
                /\ latest' = IF isMock THEN latest ELSE latest \cup {v}
                /\ submitLog' = [call |-> calls + 1, code |-> HTTP_202_ACCEPTED, url |-> youtubeUrl,
                                 meta |-> IF ~fetches THEN "none"
                                          ELSE IF meta.ok THEN "ok" ELSE "MetadataFetchError",
                                 inserts |-> IF accepted THEN 1 ELSE 2,
                                 videoid |-> v, status |-> status]

\* submit_new_video.  The row is written under a fresh id nothing else can name
\* before the call returns, so the awaits inside the call are taken together.
submit_new_video(youtubeUrl, title, fetched) ==
    LET youtube_id == extract_youtube_video_id(youtubeUrl)
        metadata_enabled == ~inlineDisabled
        fetches == metadata_enabled /\ ~isMock
        meta == IF fetches THEN fetched ELSE NoMeta
        resolved_name == IF title # "" THEN title
                         ELSE IF fetches THEN meta.title ELSE "Untitled Video"
        status == IF isMock THEN PENDING ELSE READY
        video_doc == FullDoc(resolved_name, meta, status)
        accepted == AcceptsColumns(DOMAIN video_doc)
        stored == IF accepted THEN video_doc ELSE _prepare_video_doc(video_doc)
    IN  /\ calls < MaxCalls
        /\ calls' = calls + 1
        /\ UNCHANGED <<cfgVars, libVars, edit, activity, ratingsByUser, ratingSummary, pass, view, rate, overlap>>
        /\ IF youtube_id = None
           THEN /\ submitLog' = [NoSubmit EXCEPT !.call = calls + 1, !.code = HTTP_400_BAD_REQUEST,
                                                 !.url = youtubeUrl]
                /\ UNCHANGED <<videos, latest>>
           ELSE IF fetches /\ ~meta.ok
           THEN /\ submitLog' = [NoSubmit EXCEPT !.call = calls + 1, !.code = HTTP_502_BAD_GATEWAY,
                                                 !.url = youtubeUrl,
                                                 !.meta = "MetadataFetchError"]
                /\ UNCHANGED <<videos, latest>>
           ELSE \E v \in FreshIds :
                /\ videos' = [videos EXCEPT ![v] = SetFields(EmptyDoc, stored)]
                /\ latest' = IF isMock THEN latest ELSE latest \cup {v}
                /\ submitLog' = [call |-> calls + 1, code |-> HTTP_202_ACCEPTED, url |-> youtubeUrl,
                                 meta |-> IF fetches THEN "ok" ELSE "none",
                                 inserts |-> IF accepted THEN 1 ELSE 2,
                                 videoid |-> v, status |-> status]

Submit ==
    \E u \in SubmitUrls, t \in SubmitTitles, m \in InlineMetaResults :
        submit_new_video(u, t, m)

\* One well-formed submission, for the specifications that only need a row to act on.
SubmitOne ==
    submit_new_video(<<"https://", "youtu.be/">> \o Id11, "Mine", MetaRich)


\* ------------------------------------------------- process_video_submission
\* What MockYouTubeService.get_video_details (or its patch) returns: None, a
\* title alone, or title, description, thumbnail and tags.
NoDetails == [found |-> FALSE, title |-> "", description |-> "", thumbnail_url |-> "", tags |-> ""]
TitleOnly == [found |-> TRUE, title |-> "T", description |-> "", thumbnail_url |-> "", tags |-> ""]
FullDetails == [found |-> TRUE, title |-> "T", description |-> "D", thumbnail_url |-> "P", tags |-> "G"]
ProviderResults == {NoDetails, TitleOnly, FullDetails}

\* The values an owner's edit gives the three editable fields.
OwnerValue == [name |-> "En", description |-> "Ed", tags |-> "Et"]

\* lost (history): the fields in which a write of this pass replaced a value the
\* owner had set.
IdlePass == [pc |-> "idle", vid |-> 0, existing |-> NoDoc, details |-> NoDetails,
             fetched |-> FALSE, writes |-> 0, lost |-> {}]

\* The provider's value for each descriptive column.
SourceOf(details) ==
    [k \in {"name", "description", "preview_image_location", "tags"} |->
        CASE k = "name" -> details.title
          [] k = "description" -> details.description
          [] k = "preview_image_location" -> details.thumbnail_url
          [] k = "tags" -> details.tags]

\* update_payload as built before the first write (lines 1024-1041 and 1060).
update_payload(existing, details) ==
    LET src == SourceOf(details)
        missing == {k \in DOMAIN src : src[k] # "" /\ existing[k] = ""}
        keys == IF details.found
                THEN {"updatedAt", "status"} \cup missing \cup (IF isMock THEN {"name"} ELSE {})
                ELSE {"updatedAt", "name"}
    IN  [k \in keys |->
            CASE k = "updatedAt" -> "now"
              [] k = "status" -> PROCESSING
              [] k = "name" ->
                    IF details.found
                    THEN (IF isMock THEN details.title ELSE src[k])
                    ELSE (IF existing.name # "" THEN existing.name ELSE "Error Processing Video")
              [] OTHER -> src[k]]

\* final_payload = {**update_payload, "status": final_status}
final_payload(existing, details) ==
    LET up == update_payload(existing, details)
        final_status == IF details.found THEN READY ELSE ERROR
    IN  [k \in DOMAIN up \cup {"status"} |-> IF k = "status" THEN final_status ELSE up[k]]

\* A pass that sends its payload unfiltered to every store.
SentSetUnfiltered(payload) == payload

\* interim_set / final_set: the payload as is on a mock, filtered otherwise.
SentSet(payload) == IF isMock THEN payload ELSE _prepare_video_doc(payload)

\* Slots are taken in index order, so that a call is named by its start order.
NextSlot(slots, i) ==
    /\ calls < MaxCalls
    /\ slots[i].pc = "idle"
    /\ \A j \in DOMAIN slots : j < i => slots[j].pc # "idle"

InFlight(slot) == slot.pc \notin {"idle", "done", "raised"}

\* A find step without the READY check: the pass always goes on to the provider.
PassFindNoSkip(p, v) ==
    pass' = [pass EXCEPT ![p] = [IdlePass EXCEPT !.vid = v, !.existing = videos[v],
                                                  !.pc = "found"]]

\* Lines 1008-1016: find_one, and the return when the row is already READY.
PassFindBody(p, v) ==
    LET existing == videos[v]
        skip == existing.exists /\ existing.status = READY
    IN  pass' = [pass EXCEPT ![p] = [IdlePass EXCEPT !.vid = v, !.existing = existing,
                                          !.pc = IF skip THEN "done" ELSE "found"]]

PassFind(p, v) ==
    /\ NextSlot(pass, p)
    /\ PassFindBody(p, v)
    /\ calls' = calls + 1
    /\ UNCHANGED <<cfgVars, libVars, edit, videos, latest, activity, ratingsByUser, ratingSummary,
                   submitLog, view, rate, overlap>>

\* Lines 1019-1041 / 1060: the provider answers; existing.get on None raises.
PassFetch(p, d) ==
    /\ pass[p].pc = "found"
    /\ pass' = [pass EXCEPT ![p].details = d, ![p].fetched = TRUE,
                            ![p].pc = IF ~pass[p].existing.exists THEN "raised"
                                      ELSE IF d.found THEN "interim" ELSE "final"]
    /\ UNCHANGED <<cfgVars, libVars, edit, videos, latest, activity, ratingsByUser, ratingSummary,
                   submitLog, view, rate, calls, overlap>>

\* The owner's values that writing `after` over the stored row replaces.
OwnerLost(v, after) ==
    {k \in DOMAIN OwnerValue : videos[v][k] = OwnerValue[k] /\ after[k] # OwnerValue[k]}

\* An interim write that lands only if the row is still as the pass read it.
PassInterimIfUnchanged(p) ==
    /\ pass[p].pc = "interim"
    /\ videos' = [videos EXCEPT ![pass[p].vid] =
                    IF @ = pass[p].existing
                    THEN SetFields(@, SentSet(update_payload(pass[p].existing, pass[p].details)))
                    ELSE @]
    /\ pass' = [pass EXCEPT ![p].pc = "final", ![p].writes = @ + 1]
    /\ UNCHANGED <<cfgVars, libVars, edit, latest, activity, ratingsByUser, ratingSummary,
                   submitLog, view, rate, calls, overlap>>

\* Lines 1045-1056: the interim update_one, then asyncio.sleep(5).
PassInterim(p) ==
    /\ pass[p].pc = "interim"
    /\ LET after == SetFields(videos[pass[p].vid],
                              SentSet(update_payload(pass[p].existing, pass[p].details)))
       IN  /\ videos' = [videos EXCEPT ![pass[p].vid] = after]
           /\ pass' = [pass EXCEPT ![p].pc = "final", ![p].writes = @ + 1,
                                   ![p].lost = @ \cup OwnerLost(pass[p].vid, after)]
    /\ UNCHANGED <<cfgVars, libVars, edit, latest, activity, ratingsByUser, ratingSummary,
                   submitLog, view, rate, calls, overlap>>

\* Lines 1062-1075: the final update_one.
PassFinal(p) ==
    /\ pass[p].pc = "final"
    /\ LET after == SetFields(videos[pass[p].vid],
                              SentSet(final_payload(pass[p].existing, pass[p].details)))
       IN  /\ videos' = [videos EXCEPT ![pass[p].vid] = after]
           /\ pass' = [pass EXCEPT ![p].pc = "done", ![p].writes = @ + 1,
                                   ![p].lost = @ \cup OwnerLost(pass[p].vid, after)]
    /\ UNCHANGED <<cfgVars, libVars, edit, latest, activity, ratingsByUser, ratingSummary,
                   submitLog, view, rate, calls, overlap>>

ProcessSubmission ==
    \/ \E p \in PassIds, v \in VideoIds : PassFind(p, v)
    \/ \E p \in PassIds, d \in ProviderResults : PassFetch(p, d)
    \/ \E p \in PassIds : PassInterim(p)
    \/ \E p \in PassIds : PassFinal(p)

\* ---------------------------------------------------------- get_video_by_id
\* The status a reader sees: a row without the key is given READY (line 324).
StatusRead(doc) == IF doc.status = Absent THEN READY ELSE doc.status

\* ----------------------------------------------------- update_video_details
\* update_request.model_dump(exclude_unset=True): any subset of the three
\* editable fields, each with the owner's value.
UpdateRequests == {[k \in ks |-> OwnerValue[k]] : ks \in SUBSET {"name", "description", "tags"}}

\* The $set of lines 357-363; the re-fetch that follows only builds the answer.
\* fields: the keys the request supplied; sent: the keys of the $set that went
\* to the store; writes: update_one calls sent.
IdleEdit == [vid |-> 0, fields |-> {}, sent |-> {}, writes |-> 0]

\* An update that also stamps the row.
update_video_details_stamping(v, update_fields) ==
    /\ videos[v].exists
    /\ videos' = [videos EXCEPT ![v] = SetFields(@, update_fields @@ [updatedAt |-> "now"])]
    /\ edit' = [vid |-> v, fields |-> DOMAIN update_fields,
                sent |-> DOMAIN update_fields \cup {"updatedAt"}, writes |-> 1]
    /\ UNCHANGED <<cfgVars, libVars, latest, activity, ratingsByUser, ratingSummary,
                   submitLog, pass, view, rate, overlap>>
    /\ calls < MaxCalls
    /\ calls' = calls + 1

update_video_details(v, update_fields) ==
    LET update_fields_filtered == _prepare_video_doc(update_fields)
        sends == DOMAIN update_fields # {} /\ DOMAIN update_fields_filtered # {}
    IN  /\ videos[v].exists
        /\ videos' = [videos EXCEPT ![v] =
                        IF sends THEN SetFields(@, update_fields_filtered) ELSE @]
        /\ edit' = [vid |-> v, fields |-> DOMAIN update_fields,
                    sent |-> IF sends THEN DOMAIN update_fields_filtered ELSE {},
                    writes |-> IF sends THEN 1 ELSE 0]
        /\ UNCHANGED <<cfgVars, libVars, latest, activity, ratingsByUser, ratingSummary,
                       submitLog, pass, view, rate, overlap>>
        /\ calls < MaxCalls
        /\ calls' = calls + 1

UpdateFields == \E v \in VideoIds, r \in UpdateRequests : update_video_details(v, r)


\* -------------------------------------------------------- record_video_view
IdleView == [pc |-> "idle", vid |-> 0, base |-> 0]

\* update_one(..., upsert=True): the row is created when it is missing.
Upserted(doc) == IF doc.exists THEN doc ELSE EmptyDoc

\* Whether a call of the same kind on the same video is running when this one starts.
Overlaps(slots, i, v) == \E j \in DOMAIN slots : j # i /\ InFlight(slots[j]) /\ slots[j].vid = v

\* A fallback that writes back the value it read.
same_count(current_views) == current_views

\* Line 414: new_count = int(current.get("views", 0)) + 1
new_count(current_views) == current_views + 1

\* Lines 395-407: the $inc attempt; a store without $inc answers "Update
\* operation not supported" and leaves the row alone.
ViewInc(i, v) ==
    /\ NextSlot(view, i)
    /\ IF supportsInc
       THEN /\ videos' = [videos EXCEPT ![v] = [Upserted(@) EXCEPT !.views = @ + 1]]
            /\ view' = [view EXCEPT ![i] = [IdleView EXCEPT !.pc = "log", !.vid = v]]
       ELSE /\ view' = [view EXCEPT ![i] = [IdleView EXCEPT !.pc = "rejected", !.vid = v]]
            /\ UNCHANGED videos
    /\ calls' = calls + 1
    /\ overlap' = IF Overlaps(view, i, v) THEN overlap \cup {"view"} ELSE overlap
    /\ UNCHANGED <<cfgVars, libVars, edit, latest, activity, ratingsByUser, ratingSummary,
                   submitLog, pass, rate>>

\* A fallback read that finds no row: the base is the default 0.
ViewFindNothing(i) ==
    /\ view[i].pc = "rejected"
    /\ view' = [view EXCEPT ![i].pc = "read", ![i].base = 0]
    /\ UNCHANGED <<cfgVars, libVars, edit, videos, latest, activity, ratingsByUser, ratingSummary,
                   submitLog, pass, rate, calls, overlap>>

\* Lines 408-414: the fallback reads the row (or {}) and computes new_count.
ViewFind(i) ==
    /\ view[i].pc = "rejected"
    /\ view' = [view EXCEPT ![i].pc = "read", ![i].base = videos[view[i].vid].views]
    /\ UNCHANGED <<cfgVars, libVars, edit, videos, latest, activity, ratingsByUser, ratingSummary,
                   submitLog, pass, rate, calls, overlap>>

\* Lines 415-419: the fallback writes new_count with $set, upsert=True.
ViewWrite(i) ==
    /\ view[i].pc = "read"
    /\ videos' = [videos EXCEPT ![view[i].vid] =
                    [Upserted(@) EXCEPT !.views = new_count(view[i].base)]]
    /\ view' = [view EXCEPT ![i].pc = "log"]
    /\ UNCHANGED <<cfgVars, libVars, edit, latest, activity, ratingsByUser, ratingSummary,
                   submitLog, pass, rate, calls, overlap>>

\* Lines 424-434: the view event is appended to video_activity.
ViewLog(i) ==
    /\ view[i].pc = "log"
    /\ activity' = [activity EXCEPT ![view[i].vid] = @ + 1]
    /\ view' = [view EXCEPT ![i].pc = "done"]
    /\ UNCHANGED <<cfgVars, libVars, edit, videos, latest, ratingsByUser, ratingSummary,
                   submitLog, pass, rate, calls, overlap>>

RecordView ==
    \/ \E i \in ViewIds, v \in VideoIds : ViewInc(i, v)
    \/ \E i \in ViewIds : ViewFind(i)
    \/ \E i \in ViewIds : ViewWrite(i)
    \/ \E i \in ViewIds : ViewLog(i)

\* ------------------------------------------------------------------ ratings
\* RatingValue is 1..5; the values exercised.
RatingValues == {1, 3, 5}

NoSummary == [exists |-> FALSE, rating_counter |-> 0, rating_total |-> 0]

\* path: "catalog" is video_service.record_rating, "service" is
\* rating_service.rate_video.  had: find_one found the caller's row.
\* n, s: the count and the sum a read of the store gave this call.
IdleRate == [pc |-> "idle", path |-> "", vid |-> 0, user |-> "", rating |-> 0,
             had |-> FALSE, n |-> 0, s |-> 0]

\* The current rows of a video in video_ratings_by_user.
RowsOf(v) == {u \in Users : ratingsByUser[<<v, u>>] # 0}

RECURSIVE SumOver(_, _)
SumOver(v, us) ==
    IF us = {} THEN 0
    ELSE LET u == CHOOSE x \in us : TRUE
         IN  ratingsByUser[<<v, u>>] + SumOver(v, us \ {u})

StartRate(i, path, v, u, r, pc) ==
    [IdleRate EXCEPT !.pc = pc, !.path = path, !.vid = v, !.user = u, !.rating = r]

RateFrame == <<cfgVars, libVars, edit, latest, activity, submitLog, pass, view>>

\* video_service.record_rating, lines 668-675: insert_one on the (videoid, userid)
\* key writes the caller's row, replacing an earlier one.
RateInsert(i, v, u, r) ==
    /\ NextSlot(rate, i)
    /\ ratingsByUser' = [ratingsByUser EXCEPT ![<<v, u>>] = r]
    /\ rate' = [rate EXCEPT ![i] = StartRate(i, "catalog", v, u, r, "inc")]
    /\ calls' = calls + 1
    /\ overlap' = IF Overlaps(rate, i, v) THEN overlap \cup {"rate"} ELSE overlap
    /\ UNCHANGED <<RateFrame, videos, ratingSummary>>

\* The summary row after {"$inc": {"rating_counter": 1, "rating_total": rating}}, upsert.
SummaryInc(row, rating) ==
    [exists |-> TRUE, rating_counter |-> row.rating_counter + 1,
     rating_total |-> row.rating_total + rating]

\* Lines 678-687: the $inc on video_ratings.
RateInc(i) ==
    /\ rate[i].pc = "inc"
    /\ IF supportsInc
       THEN /\ ratingSummary' = [ratingSummary EXCEPT ![rate[i].vid] = SummaryInc(@, rate[i].rating)]
            /\ rate' = [rate EXCEPT ![i].pc = "done"]
       ELSE /\ rate' = [rate EXCEPT ![i].pc = "rejected"]
            /\ UNCHANGED ratingSummary
    /\ UNCHANGED <<RateFrame, videos, ratingsByUser, calls, overlap>>

\* Lines 688-692: the fallback reads the summary row; with no row, line 692
\* calls .get on None and raises.
RateFind(i) ==
    /\ rate[i].pc = "rejected"
    /\ LET existing == ratingSummary[rate[i].vid]
       IN  rate' = [rate EXCEPT ![i].pc = IF existing.exists THEN "write" ELSE "raised",
                                ![i].n = existing.rating_counter + 1,
                                ![i].s = existing.rating_total + rate[i].rating]
    /\ UNCHANGED <<RateFrame, videos, ratingsByUser, ratingSummary, calls, overlap>>

\* Lines 693-697: the fallback writes counter and total with $set, upsert=True.
RateWrite(i) ==
    /\ rate[i].pc = "write"
    /\ ratingSummary' = [ratingSummary EXCEPT ![rate[i].vid] =
                            [exists |-> TRUE, rating_counter |-> rate[i].n,
                             rating_total |-> rate[i].s]]
    /\ rate' = [rate EXCEPT ![i].pc = "done"]
    /\ UNCHANGED <<RateFrame, videos, ratingsByUser, calls, overlap>>

\* get_rating_summary: <<ratingCount, total, count>>, the average being total/count
\* (0.0 when the count is 0 or the row is missing).
get_rating_summary(v) ==
    LET doc == ratingSummary[v]
    IN  IF ~doc.exists THEN [ratingCount |-> 0, averageRating |-> <<0, 0>>]
        ELSE [ratingCount |-> doc.rating_counter,
              averageRating |-> IF doc.rating_counter > 0
                                THEN <<doc.rating_total, doc.rating_counter>>
                                ELSE <<0, 0>>]

\* Video.model_validate needs the required columns; a row that only an upsert
\* created has none of them (name stands for them).
Validates(doc) == doc.name # ""

\* rating_service.rate_video, lines 76-93: the video must exist and read READY.
SvcGet(i, v, u, r) ==
    /\ NextSlot(rate, i)
    /\ LET doc == videos[v]
           ok == doc.exists /\ Validates(doc) /\ StatusRead(doc) = READY
       IN  rate' = [rate EXCEPT ![i] = StartRate(i, "service", v, u, r,
                                                 IF ok THEN "find" ELSE "raised")]
    /\ calls' = calls + 1
    /\ overlap' = IF Overlaps(rate, i, v) THEN overlap \cup {"rate"} ELSE overlap
    /\ UNCHANGED <<RateFrame, videos, ratingsByUser, ratingSummary>>

\* Lines 99-100: find_one for the caller's own row.
SvcFind(i) ==
    /\ rate[i].pc = "find"
    /\ rate' = [rate EXCEPT ![i].pc = "upsert",
                            ![i].had = ratingsByUser[<<rate[i].vid, rate[i].user>>] # 0]
    /\ UNCHANGED <<RateFrame, videos, ratingsByUser, ratingSummary, calls, overlap>>

\* Lines 102-129: update_one on the found row, insert_one otherwise.
SvcUpsert(i) ==
    /\ rate[i].pc = "upsert"
    /\ ratingsByUser' = [ratingsByUser EXCEPT ![<<rate[i].vid, rate[i].user>>] = rate[i].rating]
    /\ rate' = [rate EXCEPT ![i].pc = "list"]
    /\ UNCHANGED <<RateFrame, videos, ratingSummary, calls, overlap>>

\* An aggregate that counts calls: each call adds one to the stored count.
RecountByCall(v) == [total |-> videos[v].totalRatingsCount + 1, sum |-> SumOver(v, RowsOf(v))]

\* _update_video_aggregate_rating, lines 34-47: total and sum of the rows found.
Recount(v) == [total |-> Cardinality(RowsOf(v)), sum |-> SumOver(v, RowsOf(v))]

SvcList(i) ==
    /\ rate[i].pc = "list"
    /\ rate' = [rate EXCEPT ![i].pc = "aggregate",
                            ![i].n = Recount(rate[i].vid).total,
                            ![i].s = Recount(rate[i].vid).sum]
    /\ UNCHANGED <<RateFrame, videos, ratingsByUser, ratingSummary, calls, overlap>>

\* Lines 49-67: the aggregate is written to the videos row; a table without the
\* columns answers UNKNOWN_TABLE_COLUMNS, which is swallowed.
SvcAggregate(i) ==
    /\ rate[i].pc = "aggregate"
    /\ videos' = [videos EXCEPT ![rate[i].vid] =
                    IF @.exists /\ AcceptsColumns({"averageRating", "totalRatingsCount", "updatedAt"})
                    THEN [@ EXCEPT !.averageRating = <<rate[i].s, rate[i].n>>,
                                   !.totalRatingsCount = rate[i].n,
                                   !.updatedAt = "now"]
                    ELSE @]
    /\ rate' = [rate EXCEPT ![i].pc = "done"]
    /\ UNCHANGED <<RateFrame, ratingsByUser, ratingSummary, calls, overlap>>

RateCatalog ==
    \/ \E i \in RateIds, v \in VideoIds, u \in Users, r \in RatingValues : RateInsert(i, v, u, r)
    \/ \E i \in RateIds : RateInc(i)
    \/ \E i \in RateIds : RateFind(i)
    \/ \E i \in RateIds : RateWrite(i)

RateService ==
    \/ \E i \in RateIds, v \in VideoIds, u \in Users, r \in RatingValues : SvcGet(i, v, u, r)
    \/ \E i \in RateIds : SvcFind(i)
    \/ \E i \in RateIds : SvcUpsert(i)
    \/ \E i \in RateIds : SvcList(i)
    \/ \E i \in RateIds : SvcAggregate(i)

RateVideo == RateCatalog \/ RateService

\* --------------------------------------------------- fetch_youtube_metadata
\* How a helper ends: it raises `error`, or it returns `meta`.
Raised(e) == [raised |-> TRUE, error |-> e, meta |-> MetaFail]
Returned(m) == [raised |-> FALSE, error |-> "", meta |-> m]

\* What the HTTP exchange with the Data API can come to: the request fails in
\* transport, exceeds the timeout, is answered with a status other than 200,
\* with a body that is not JSON, with no items, with a snippet that has no
\* title key, or with a full snippet.
V3Replies == {"network_error", "timeout", "http_error", "bad_json", "no_items", "no_title", "ok"}

\* The same for oEmbed, whose answer has a title or lacks it.
OEmbedReplies == {"network_error", "timeout", "http_error", "bad_json", "no_title", "ok"}

\* What client.get / resp.json raise by themselves.
TransportErrors ==
    [r \in {"network_error", "timeout", "bad_json"} |->
        CASE r = "network_error" -> "httpx.TransportError"
          [] r = "timeout" -> "httpx.TimeoutException"
          [] r = "bad_json" -> "JSONDecodeError"]

\* _fetch_v3_api: non-200 and an empty items list raise MetadataFetchError; the
\* title is snippet.get("title", ""), so a snippet without title gives "".
_fetch_v3_api(reply) ==
    IF reply \in DOMAIN TransportErrors THEN Raised(TransportErrors[reply])
    ELSE IF reply \in {"http_error", "no_items"} THEN Raised("MetadataFetchError")
    ELSE IF reply = "no_title" THEN Returned([MetaRich EXCEPT !.title = ""])
    ELSE Returned(MetaRich)

\* _fetch_oembed: non-200 and a missing title raise MetadataFetchError.
_fetch_oembed(reply) ==
    IF reply \in DOMAIN TransportErrors THEN Raised(TransportErrors[reply])
    ELSE IF reply \in {"http_error", "no_title"} THEN Raised("MetadataFetchError")
    ELSE Returned(MetaLight)

\* api_key: settings.YOUTUBE_API_KEY is set.  v3, oembed: the reply each helper
\* got ("" when it was not called).  result: how the call ended.
IdleResolve == [pc |-> "idle", api_key |-> FALSE, v3 |-> "", oembed |-> "",
                result |-> Returned(NoMeta)]

\* Lines 185-186: the key decides which helper is tried first.
ResolveStart(api_key) ==
    /\ resolve.pc \in {"idle", "done"}
    /\ calls < MaxCalls
    /\ calls' = calls + 1
    /\ resolve' = [IdleResolve EXCEPT !.pc = IF api_key THEN "v3" ELSE "oembed",
                                      !.api_key = api_key]
    /\ UNCHANGED <<cfgVars, catalogVars, search, clip, degrade, extract>>

\* Lines 187-191: try _fetch_v3_api; `except Exception` leads to the fallback.
ResolveV3(reply) ==
    /\ resolve.pc = "v3"
    /\ LET r == _fetch_v3_api(reply)
       IN  resolve' = [resolve EXCEPT !.v3 = reply,
                                      !.pc = IF r.raised THEN "oembed" ELSE "done",
                                      !.result = IF r.raised THEN @ ELSE r]
    /\ UNCHANGED <<cfgVars, catalogVars, calls, search, clip, degrade, extract>>

\* Line 194: return await _fetch_oembed(...), with nothing around it.
ResolveOEmbed(reply) ==
    /\ resolve.pc = "oembed"
    /\ resolve' = [resolve EXCEPT !.oembed = reply, !.pc = "done",
                                  !.result = _fetch_oembed(reply)]
    /\ UNCHANGED <<cfgVars, catalogVars, calls, search, clip, degrade, extract>>

fetch_youtube_metadata ==
    \/ \E k \in BOOLEAN : ResolveStart(k)
    \/ \E r \in V3Replies : ResolveV3(r)
    \/ \E r \in OEmbedReplies : ResolveOEmbed(r)

\* ----------------------------------------------------------- token clipping
\* A text is a sequence of characters: two word characters, a punctuation
\* mark and a blank stand for \w, [^\w\s] and \s.
WordChars == {"a", "b"}
Blanks == {" "}
Chars == WordChars \cup {"."} \cup Blanks
Texts == UNION {[1..n -> Chars] : n \in 0..MaxText}

\* The limit of 512 tokens, scaled down with the texts.
MAX_TOKENS == TokenLimit
MAX_TOKENS_NV_EMBED == TokenLimit

\* Last position of the run of word characters that starts at i.
RECURSIVE RunEnd(_, _)
RunEnd(text, i) ==
    IF i < Len(text) /\ text[i + 1] \in WordChars THEN RunEnd(text, i + 1) ELSE i

\* re.compile(r"\w+|[^\w\s]").findall(text): every maximal run of word
\* characters and every other non-blank character, from left to right.
RECURSIVE FindAllFrom(_, _)
FindAllFrom(text, i) ==
    IF i > Len(text) THEN <<>>
    ELSE IF text[i] \in WordChars
         THEN <<SubSeq(text, i, RunEnd(text, i))>> \o FindAllFrom(text, RunEnd(text, i) + 1)
    ELSE IF text[i] \in Blanks THEN FindAllFrom(text, i + 1)
    ELSE <<(<<text[i]>>)>> \o FindAllFrom(text, i + 1)

findall(text) == FindAllFrom(text, 1)

\* " ".join(tokens)
RECURSIVE Join(_)
Join(tokens) ==
    IF tokens = <<>> THEN <<>>
    ELSE IF Len(tokens) = 1 THEN tokens[1]
    ELSE tokens[1] \o <<" ">> \o Join(Tail(tokens))

\* app.utils.text.clip_to_512_tokens
clip_to_512_tokens(text) ==
    IF text = <<>> THEN text
    ELSE LET tokens == findall(text)
         IN  IF Len(tokens) <= MAX_TOKENS_NV_EMBED THEN text
             ELSE Join(SubSeq(tokens, 1, MAX_TOKENS_NV_EMBED))

\* A clip that brings every text to the joined form.
ClipAlwaysRejoined(text) ==
    LET tokens == findall(text)
    IN  Join(SubSeq(tokens, 1, IF Len(tokens) <= MAX_TOKENS THEN Len(tokens) ELSE MAX_TOKENS))

\* EmbeddingService._clip_to_max_tokens
_clip_to_max_tokens(text) ==
    LET tokens == findall(text)
    IN  IF Len(tokens) <= MAX_TOKENS THEN text
        ELSE Join(SubSeq(tokens, 1, MAX_TOKENS))

\* not text or not text.strip()
IsBlank(text) == \A i \in DOMAIN text : text[i] \in Blanks

\* EmbeddingService.generate_embedding with the model loaded: ValueError for a
\* blank text; any other text is clipped and encoded.  `of` is the text the
\* model encoded.
generate_embedding(text) ==
    IF IsBlank(text) THEN [raised |-> TRUE, error |-> "ValueError", of |-> <<>>]
    ELSE [raised |-> FALSE, error |-> "", of |-> _clip_to_max_tokens(text)]

\* pc: "idle", "shared" after clip_to_512_tokens ran on text, "both" after the
\* embedding service's clip ran on it too.
IdleClip == [pc |-> "idle", text |-> <<>>, shared |-> <<>>, service |-> <<>>]

ClipShared(text) ==
    /\ clip.pc = "idle"
    /\ clip' = [pc |-> "shared", text |-> text, shared |-> clip_to_512_tokens(text),
                service |-> <<>>]
    /\ UNCHANGED <<cfgVars, catalogVars, calls, resolve, search, degrade, extract>>

ClipService ==
    /\ clip.pc = "shared"
    /\ clip' = [clip EXCEPT !.pc = "both", !.service = _clip_to_max_tokens(clip.text)]
    /\ UNCHANGED <<cfgVars, catalogVars, calls, resolve, search, degrade, extract>>

ClipText ==
    \/ clip.pc = "idle" /\ \E text \in Texts : ClipShared(text)
    \/ ClipService

\* ---------------------------------------------------------- semantic search
\* Similarity scores the store reports, in tenths.
Similarities == {0, 5, 9}

\* The rows of the videos table as a vector sort ranks them for one query:
\* the similarities from the best match down.
Rankings ==
    {s \in UNION {[1..n -> Similarities] : n \in 0..MaxCorpus} :
        \A i \in 1..(Len(s) - 1) : s[i] >= s[i + 1]}

\* db_table.find(filter={}, sort={vector_column: query}, limit=..., include_similarity=True):
\* the first `limit` rows of the ranking, each with its $similarity.
VectorFind(ranked, limit) ==
    [i \in 1..(IF limit < Len(ranked) THEN limit ELSE Len(ranked)) |->
        [rank |-> i, similarity |-> ranked[i]]]

\* docs[start:end] of Python, start and end counted from 0.
Slice(docs, start, end) ==
    IF start >= Len(docs) THEN <<>>
    ELSE SubSeq(docs, start + 1, IF end < Len(docs) THEN end ELSE Len(docs))

AtLeast(docs, similarity_threshold) ==
    SelectSeq(docs, LAMBDA d : d.similarity >= similarity_threshold)

\* Lines 84-86: the trim happens only for a threshold above 0.
TrimEveryThreshold(fetched, similarity_threshold) ==
    SelectSeq(fetched, LAMBDA d : d.similarity > similarity_threshold)

Trim(fetched, similarity_threshold) ==
    IF similarity_threshold > 0 THEN AtLeast(fetched, similarity_threshold)
    ELSE fetched

SearchRaised(e) == [raised |-> TRUE, error |-> e, limit |-> 0, items |-> <<>>, total |-> 0]
SearchReturned(limit, docs, total) ==
    [raised |-> FALSE, error |-> "", limit |-> limit,
     items |-> [i \in DOMAIN docs |-> docs[i].rank], total |-> total]

\* The body of semantic_search_with_threshold.  limit is what find was asked
\* for, 0 when find was not called.
semantic_search_with_threshold(ranked, page, page_size, similarity_threshold, overfetch_factor) ==
    IF page < 1 \/ page_size < 1 THEN SearchReturned(0, <<>>, 0)
    ELSE LET overfetch == page_size * overfetch_factor * page
             fetched == VectorFind(ranked, overfetch)
             docs == Trim(fetched, similarity_threshold)
             start == (page - 1) * page_size
             end == start + page_size
         IN  SearchReturned(overfetch, Slice(docs, start, end), Len(docs))

\* The keyword-only signature of semantic_search_with_threshold and its defaults.
HelperParams == {"db_table", "vector_column", "query", "page", "page_size",
                 "similarity_threshold", "overfetch_factor"}
HelperDefaults == [similarity_threshold |-> 0, overfetch_factor |-> 3]

\* A call with keyword arguments: Python raises TypeError for a keyword the
\* signature does not have and for a parameter without default left unbound.
CallHelper(ranked, kwargs) ==
    IF \/ ~(DOMAIN kwargs \subseteq HelperParams)
       \/ ~((HelperParams \ DOMAIN HelperDefaults) \subseteq DOMAIN kwargs)
    THEN SearchRaised("TypeError")
    ELSE LET arg(k) == IF k \in DOMAIN kwargs THEN kwargs[k] ELSE HelperDefaults[k]
         IN  semantic_search_with_threshold(ranked, arg("page"), arg("page_size"),
                                            arg("similarity_threshold"), arg("overfetch_factor"))

\* The fields class Settings declares (the observability ones left out).
SettingsFields == {"PROJECT_NAME", "API_V1_STR", "ASTRA_DB_API_ENDPOINT",
                   "ASTRA_DB_APPLICATION_TOKEN", "ASTRA_DB_KEYSPACE", "SECRET_KEY",
                   "ALGORITHM", "ACCESS_TOKEN_EXPIRE_MINUTES", "DEFAULT_PAGE_SIZE",
                   "MAX_PAGE_SIZE", "CORS_ALLOW_ORIGINS", "APP_VERSION", "ENVIRONMENT",
                   "INLINE_METADATA_DISABLED", "ENABLE_BACKGROUND_PROCESSING",
                   "VECTOR_SEARCH_ENABLED", "YOUTUBE_API_KEY", "YOUTUBE_API_TIMEOUT"}

\* settings.<name>: an attribute the class does not declare raises AttributeError.
HasSetting(name) == name \in SettingsFields

\* Queries: one word, one of blanks only (which the endpoint's min_length=1
\* lets through), and one of one token more than the limit.
LongQuery == [i \in 1..(2 * TokenLimit + 1) |-> IF i % 2 = 1 THEN "a" ELSE " "]
Queries == {<<"a">>, <<" ">>, LongQuery}
Embeddable(query) == ~generate_embedding(query).raised

\* Thresholds a caller of the helper may pass, in tenths.
Thresholds == {0, 5, 9}

\* via: which function was called (one search is followed per behaviour).  The
\* inputs of the call, the text generate_embedding encoded, then the outcome.
IdleSearch == [via |-> "none", query |-> <<>>, embedded |-> <<>>, page |-> 0, page_size |-> 0,
               similarity_threshold |-> 0, ranked |-> <<>>,
               out |-> SearchReturned(0, <<>>, 0)]

\* search_videos_by_semantic: the embedding (ValueError becomes HTTP 400), then
\* the call of the helper, whose arguments are evaluated first.
search_videos_by_semantic(query, page, page_size, ranked) ==
    /\ search.via = "none"
    /\ search' =
         [via |-> "service", query |-> query, embedded |-> generate_embedding(query).of,
          page |-> page, page_size |-> page_size,
          similarity_threshold |-> 0, ranked |-> ranked,
          out |-> IF ~Embeddable(query) THEN SearchRaised("HTTP_400_BAD_REQUEST")
                  ELSE IF ~HasSetting("VECTOR_SEARCH_SIMILARITY_THRESHOLD")
                       THEN SearchRaised("AttributeError")
                  ELSE CallHelper(ranked,
                           [db_table |-> "videos", vector_column |-> "content_features",
                            query_vector |-> "embedding", page |-> page,
                            page_size |-> page_size, similarity_threshold |-> 0])]
    /\ UNCHANGED <<cfgVars, catalogVars, calls, resolve, clip, degrade, extract>>

\* The helper called by its own signature, the query passed as `query`.
SearchHelper(page, page_size, similarity_threshold, ranked) ==
    /\ search.via = "none"
    /\ search' =
         [via |-> "helper", query |-> <<"a">>, embedded |-> <<>>,
          page |-> page, page_size |-> page_size,
          similarity_threshold |-> similarity_threshold, ranked |-> ranked,
          out |-> CallHelper(ranked,
                      [db_table |-> "videos", vector_column |-> "content_features",
                       query |-> <<"a">>, page |-> page, page_size |-> page_size,
                       similarity_threshold |-> similarity_threshold])]
    /\ UNCHANGED <<cfgVars, catalogVars, calls, resolve, clip, degrade, extract>>

\* search_videos_by_keyword: hands its arguments to search_videos_by_semantic.
search_videos_by_keyword(query, page, page_size, ranked) ==
    /\ search.via = "none"
    /\ search' =
         [via |-> "keyword", query |-> query, embedded |-> generate_embedding(query).of,
          page |-> page, page_size |-> page_size,
          similarity_threshold |-> 0, ranked |-> ranked,
          out |-> IF ~Embeddable(query) THEN SearchRaised("HTTP_400_BAD_REQUEST")
                  ELSE IF ~HasSetting("VECTOR_SEARCH_SIMILARITY_THRESHOLD")
                       THEN SearchRaised("AttributeError")
                  ELSE CallHelper(ranked,
                           [db_table |-> "videos", vector_column |-> "content_features",
                            query_vector |-> "embedding", page |-> page,
                            page_size |-> page_size, similarity_threshold |-> 0])]
    /\ UNCHANGED <<cfgVars, catalogVars, calls, resolve, clip, degrade, extract>>

\* GET /search/videos: semantic only when asked for and enabled by
\* settings.VECTOR_SEARCH_ENABLED, keyword otherwise.  page and pageSize are
\* validated ge=1, query min_length=1.
search_videos(query, mode, vector_search_enabled, page, page_size, ranked) ==
    IF mode = "semantic" /\ vector_search_enabled
    THEN search_videos_by_semantic(query, page, page_size, ranked)
    ELSE search_videos_by_keyword(query, page, page_size, ranked)

SearchEndpoint ==
    /\ search.via = "none"
    /\ \E q \in Queries, mode \in {"semantic", "keyword"}, enabled \in BOOLEAN,
          page \in 1..MaxPage, page_size \in 1..MaxPageSize, ranked \in Rankings :
           search_videos(q, mode, enabled, page, page_size, ranked)

SearchSemantic ==
    /\ search.via = "none"
    /\ \E q \in Queries, page \in 0..MaxPage, page_size \in 0..MaxPageSize, ranked \in Rankings :
           search_videos_by_semantic(q, page, page_size, ranked)

SearchDirect ==
    /\ search.via = "none"
    /\ \E page \in 0..MaxPage, page_size \in 0..MaxPageSize, t \in Thresholds, ranked \in Rankings :
           SearchHelper(page, page_size, t, ranked)

\* ------------------------------------------------- store rejections handled
\* What a store call can come to: success, a DataAPIResponseException with one
\* of the messages the handlers look for or with another one, a TypeError, or
\* an error of another class (a timeout).
ApiMessages == {"UNKNOWN_TABLE_COLUMNS", "Update operation not supported",
                "unsupported operations", "UNSUPPORTED_TABLE_COMMAND", "INVALID_REQUEST"}
StoreReplies == {"ok"} \cup ApiMessages \cup {"TypeError", "DataAPITimeoutException"}

\* isinstance(exc, DataAPIResponseException)
IsApiError(reply) == reply \in ApiMessages

\* The outcome of one handled store operation: the store calls made in order,
\* the error that left the function ("" when it returned) and, for a count,
\* the number returned.
Handled(op, sent, error, value) ==
    [op |-> op, sent |-> sent, error |-> error, value |-> value]

IdleHandled == Handled("none", <<>>, "", 0)

\* submit_new_video, lines 237-246: insert_one of the full document, retried
\* with the schema-safe document on UNKNOWN_TABLE_COLUMNS.
InsertVideo(r1, r2) ==
    IF r1 = "ok" THEN Handled("insert", <<"insert_one:full">>, "", 0)
    ELSE IF IsApiError(r1) /\ r1 = "UNKNOWN_TABLE_COLUMNS"
         THEN Handled("insert", <<"insert_one:full", "insert_one:safe">>,
                      IF r2 = "ok" THEN "" ELSE r2, 0)
    ELSE Handled("insert", <<"insert_one:full">>, r1, 0)

\* record_video_view, lines 395-421: $inc, and on its rejection find_one and $set.
IncrementViews(r1, r2, r3) ==
    IF r1 = "ok" THEN Handled("increment", <<"update_one:$inc">>, "", 0)
    ELSE IF IsApiError(r1) /\ r1 \in {"Update operation not supported", "unsupported operations"}
         THEN IF r2 # "ok" THEN Handled("increment", <<"update_one:$inc", "find_one">>, r2, 0)
              ELSE Handled("increment", <<"update_one:$inc", "find_one", "update_one:$set">>,
                           IF r3 = "ok" THEN "" ELSE r3, 0)
    ELSE Handled("increment", <<"update_one:$inc">>, r1, 0)

\* db_helpers.safe_count, lines 36-42: count_documents; TypeError and the
\* UNSUPPORTED_TABLE_COMMAND rejection give fallback_len.
safe_count(r1, matching, fallback_len) ==
    IF r1 = "ok" THEN Handled("count", <<"count_documents">>, "", matching)
    ELSE IF r1 = "TypeError" \/ IsApiError(r1)
         THEN IF IsApiError(r1) /\ r1 # "UNSUPPORTED_TABLE_COMMAND"
              THEN Handled("count", <<"count_documents">>, r1, 0)
              ELSE Handled("count", <<"count_documents">>, "", fallback_len)
    ELSE Handled("count", <<"count_documents">>, r1, 0)

\* One handled operation is followed per behaviour.  replies: what the store
\* answered to the calls made; matching, fallback_len: rows that match the
\* filter and rows of the fetched page.
IdleDegrade == [replies |-> <<>>, matching |-> 0, fallback_len |-> 0, out |-> IdleHandled]

Degrade(replies, matching, fallback_len, out) ==
    /\ degrade.out.op = "none"
    /\ degrade' = [replies |-> SubSeq(replies, 1, Len(out.sent)), matching |-> matching,
                   fallback_len |-> fallback_len, out |-> out]
    /\ UNCHANGED <<cfgVars, catalogVars, calls, resolve, search, clip, extract>>

DegradeInsert ==
    degrade.out.op = "none" /\ \E r1, r2 \in StoreReplies : Degrade(<<r1, r2>>, 0, 0, InsertVideo(r1, r2))

DegradeIncrement ==
    degrade.out.op = "none" /\ \E r1, r2, r3 \in StoreReplies : Degrade(<<r1, r2, r3>>, 0, 0, IncrementViews(r1, r2, r3))

DegradeCount ==
    degrade.out.op = "none" /\ \E r1 \in StoreReplies, fallback_len \in 0..MaxPageSize :
        \E matching \in fallback_len..MaxCorpus :
            Degrade(<<r1>>, matching, fallback_len, safe_count(r1, matching, fallback_len))

\* ------------------------------------------------- URL extraction by itself
\* Ids of the character class, and the prefixes a URL is put together from.
SomeIds == {Id11, <<"-", "_", "9", "Z", "a", "9", "9", "9", "9", "9", "Z">>}
OptScheme == {<<>>, <<"http://">>, <<"https://">>}
OptWww == {<<>>, <<"www.">>}

\* What may follow the id: nothing, one more id character, a query string.
Tails == {<<>>, <<"a">>, <<"&t=1">>}

\* A URL of shape i (the index in _YOUTUBE_PATTERNS).
ShapedUrl(scheme, www, i, id, tail) ==
    scheme \o www \o <<_YOUTUBE_PATTERNS[i].host>>
        \o (IF _YOUTUBE_PATTERNS[i].path = "" THEN <<>> ELSE <<_YOUTUBE_PATTERNS[i].path>>)
        \o id \o tail

ShapedUrls ==
    {ShapedUrl(s, w, i, id, t) :
        s \in OptScheme, w \in OptWww, i \in DOMAIN _YOUTUBE_PATTERNS, id \in SomeIds, t \in Tails}

\* URLs of no supported shape: a foreign or mobile host, an unknown path, an id
\* that is short or has a character outside the class, a scheme in capitals,
\* "www." twice, text in front of the host.
ShapelessUrls ==
    (InvalidUrls \cup
    {s \o w \o rest :
        s \in OptScheme, w \in OptWww,
        rest \in { <<"m.youtube.com/", "watch?v=">> \o Id11,
                   <<"youtube.com/", "playlist?list=">> \o Id11,
                   <<"youtube.com/">> \o Id11,
                   <<"youtube.com/", "watch?v=">> \o SubSeq(Id11, 1, IdLen - 1),
                   <<"youtu.be/">> \o SubSeq(Id11, 1, IdLen - 1) \o <<".">>,
                   <<"youtu.be/", "watch?v=">> \o Id11,
                   <<"www.", "www.", "youtu.be/">> \o Id11,
                   <<" ", "youtu.be/">> \o Id11 }}) \ ShapedUrls

IdleExtract == [called |-> FALSE, url |-> <<>>, id |-> None]

ExtractId(url) ==
    /\ ~extract.called
    /\ extract' = [called |-> TRUE, url |-> url, id |-> extract_youtube_video_id(url)]
    /\ UNCHANGED <<cfgVars, catalogVars, calls, resolve, search, clip, degrade>>

ExtractShaped == ~extract.called /\ \E url \in ShapedUrls : ExtractId(url)
ExtractShapeless == ~extract.called /\ \E url \in ShapelessUrls : ExtractId(url)

\* ------------------------------------------------------------ specification
\* The store as the service finds it.  It may hold a rating imported before this
\* deployment: u2's row of 1 for the first video, with its summary row.
LegacyRatings == [k \in VideoIds \X Users |-> IF k = <<1, "u2">> THEN 1 ELSE 0]
LegacySummary ==
    [v \in VideoIds |-> IF v = 1 THEN [exists |-> TRUE, rating_counter |-> 1, rating_total |-> 1]
                        ELSE NoSummary]
NoRatings == [k \in VideoIds \X Users |-> 0]

Init ==
    /\ storeKind \in StoreKinds
    /\ supportsInc \in BOOLEAN
    /\ inlineDisabled \in BOOLEAN
    /\ videos = [v \in VideoIds |-> NoDoc]
    /\ latest = {}
    /\ activity = [v \in VideoIds |-> 0]
    /\ \/ ratingsByUser = NoRatings /\ ratingSummary = [v \in VideoIds |-> NoSummary]
       \/ ratingsByUser = LegacyRatings /\ ratingSummary = LegacySummary
    /\ submitLog = NoSubmit
    /\ pass = [p \in PassIds |-> IdlePass]
    /\ view = [i \in ViewIds |-> IdleView]
    /\ rate = [i \in RateIds |-> IdleRate]
    /\ calls = 0
    /\ overlap = {}
    /\ resolve = IdleResolve
    /\ search = IdleSearch
    /\ clip = IdleClip
    /\ degrade = IdleDegrade
    /\ edit = IdleEdit
    /\ extract = IdleExtract

\* The whole service.
Next ==
    \/ Submit
    \/ ProcessSubmission
    \/ UpdateFields
    \/ RecordView
    \/ RateVideo

Spec == Init /\ [][Next]_vars

\* The ingestion pipeline: submission, the background pass, owner edits.  The
\* $inc capability and the ratings tables play no part in it.
InitLife == Init /\ supportsInc /\ ratingsByUser = NoRatings
NextLife == Submit \/ ProcessSubmission \/ UpdateFields
SpecLife == InitLife /\ [][NextLife]_vars

\* View counting alone: upserts need no submitted row.
InitViews == Init /\ storeKind = "collection" /\ ~inlineDisabled /\ ratingsByUser = NoRatings
NextViews == RecordView
SpecViews == InitViews /\ [][NextViews]_vars

\* rating_service.rate_video on submitted videos.
InitRate == Init /\ supportsInc /\ ~inlineDisabled /\ ratingsByUser = NoRatings
NextRate == SubmitOne \/ RateService
SpecRate == InitRate /\ [][NextRate]_vars

\* video_service.record_rating and get_rating_summary.
InitCatalog == Init /\ storeKind = "collection" /\ ~inlineDisabled
NextCatalog == RateCatalog
SpecCatalog == InitCatalog /\ [][NextCatalog]_vars

\* The engagement aggregator: views and both rating paths on submitted videos.
InitEngage == Init /\ storeKind = "collection" /\ ~inlineDisabled
NextEngage == SubmitOne \/ RecordView \/ RateVideo
SpecEngage == InitEngage /\ [][NextEngage]_vars

\* The metadata resolver alone.
InitResolve ==
    Init /\ storeKind = "collection" /\ supportsInc /\ ~inlineDisabled /\ ratingsByUser = NoRatings
NextResolve == fetch_youtube_metadata
SpecResolve == InitResolve /\ [][NextResolve]_vars

\* Semantic search alone.
InitSearch ==
    Init /\ storeKind = "collection" /\ supportsInc /\ ~inlineDisabled /\ ratingsByUser = NoRatings
NextSearch == SearchEndpoint \/ SearchSemantic \/ SearchDirect
SpecSearch == InitSearch /\ [][NextSearch]_vars

\* The token clips alone.
InitClip ==
    Init /\ storeKind = "collection" /\ supportsInc /\ ~inlineDisabled /\ ratingsByUser = NoRatings
NextClip == ClipText
SpecClip == InitClip /\ [][NextClip]_vars

\* The rejection handlers alone.
InitDegrade ==
    Init /\ storeKind = "collection" /\ supportsInc /\ ~inlineDisabled /\ ratingsByUser = NoRatings
NextDegrade == DegradeInsert \/ DegradeIncrement \/ DegradeCount
SpecDegrade == InitDegrade /\ [][NextDegrade]_vars

\* extract_youtube_video_id alone.
InitExtract ==
    Init /\ storeKind = "collection" /\ supportsInc /\ ~inlineDisabled /\ ratingsByUser = NoRatings
NextExtract == ExtractShaped \/ ExtractShapeless
SpecExtract == InitExtract /\ [][NextExtract]_vars

\* ================================================================== claims
PassesOn(v) == {p \in PassIds : pass[p].pc # "idle" /\ pass[p].vid = v}
ViewCallsOn(v) == {i \in ViewIds : view[i].pc # "idle" /\ view[i].vid = v}
RateCallsOn(v) == {i \in RateIds : rate[i].pc # "idle" /\ rate[i].vid = v}

\* Order of the lifecycle: PENDING, then PROCESSING, then the terminal states.
StatusRank(st) == CASE st = PENDING -> 0 [] st = PROCESSING -> 1 [] OTHER -> 2

HasRead(i) == view[i].pc \in {"read", "log", "done"}
HasWritten(i) == view[i].pc \in {"log", "done"}

\* C2: on a store without $inc, two RecordView calls read the same base value
\* only if calls overlapped; a finished run has lost an increment (views below
\* the number of logged views) only if calls overlapped; and two calls that both
\* read base b and were the only ones leave views = b + 1.
C2_LostOnlyWhenOverlapping ==
    ~supportsInc =>
        \A v \in VideoIds :
            /\ (\E i, j \in ViewCallsOn(v) :
                    i < j /\ HasRead(i) /\ HasRead(j) /\ view[i].base = view[j].base)
                  => "view" \in overlap
            /\ ((\A i \in ViewCallsOn(v) : view[i].pc = "done") /\ videos[v].views < activity[v])
                  => "view" \in overlap
            /\ \A i, j \in ViewCallsOn(v) :
                  (i < j /\ ViewCallsOn(v) = {i, j} /\ HasWritten(i) /\ HasWritten(j)
                     /\ view[i].base = view[j].base)
                  => videos[v].views = view[i].base + 1

\* Two overlapping calls have both read 0 and finished: one view is stored, two are logged.
C2_LostUpdate ==
    /\ ~supportsInc
    /\ \E v \in VideoIds : \E i, j \in ViewCallsOn(v) :
          /\ i < j /\ ViewCallsOn(v) = {i, j}
          /\ view[i].pc = "done" /\ view[j].pc = "done"
          /\ view[i].base = 0 /\ view[j].base = 0
          /\ videos[v].views = 1 /\ activity[v] = 2

\* C3: viewCount and both rating counts are never negative and no step lowers
\* any of them, whatever the interleaving of RecordView and RateVideo calls.
C3_CountersNeverLowered ==
    [][\A v \in VideoIds :
          /\ videos'[v].views >= 0 /\ videos'[v].views >= videos[v].views
          /\ videos'[v].totalRatingsCount >= 0
          /\ videos'[v].totalRatingsCount >= videos[v].totalRatingsCount
          /\ ratingSummary'[v].rating_counter >= 0
          /\ ratingSummary'[v].rating_counter >= ratingSummary[v].rating_counter]_vars

\* Every pass started for v has returned normally, and there is one.
PassesFinished(v) ==
    /\ videos[v].exists
    /\ PassesOn(v) # {}
    /\ \A p \in PassesOn(v) : pass[p].pc = "done"

FetchedOn(v) == {p \in PassesOn(v) : pass[p].fetched}

\* The status the provider's answers call for, READY for details and ERROR for nothing.
AnswersCallFor(v, st) ==
    /\ (FetchedOn(v) # {} /\ \A p \in FetchedOn(v) : pass[p].details.found) => st = READY
    /\ (FetchedOn(v) # {} /\ \A p \in FetchedOn(v) : ~pass[p].details.found) => st = ERROR

\* C4: once all passes of a record have completed, its status is READY when the
\* provider returned details and ERROR when it returned nothing, never PENDING
\* or PROCESSING (a row without the status key counted as it reads, READY).
C4_PassesEndReadyOrError ==
    \A v \in VideoIds :
        PassesFinished(v) =>
            /\ StatusRead(videos[v]) \in {READY, ERROR}
            /\ AnswersCallFor(v, StatusRead(videos[v]))

\* C5: a pass whose find_one sees status READY returns at once: no provider
\* call, no write, every table as it was; and it never acts again.
C5_ReadyPassIsNoOp ==
    [][\A p \in PassIds :
          /\ (pass[p].pc = "idle" /\ pass'[p].pc # "idle"
                /\ videos[pass'[p].vid].exists /\ videos[pass'[p].vid].status = READY)
             => /\ pass'[p].pc = "done"
                /\ ~pass'[p].fetched
                /\ pass'[p].writes = 0
                /\ UNCHANGED <<videos, latest, activity, ratingsByUser, ratingSummary>>
          /\ (pass[p].pc = "done" /\ pass[p].existing.exists /\ pass[p].existing.status = READY)
             => pass'[p] = pass[p]]_vars

\* A pass has returned from a row it found READY.
C5_ReadySkipped ==
    \E p \in PassIds :
        /\ pass[p].pc = "done"
        /\ pass[p].existing.exists /\ pass[p].existing.status = READY
        /\ pass[p].writes = 0 /\ ~pass[p].fetched

\* The calls of rate_video that have completed on v, and the entries they call
\* for: each user's latest value, one row per user.
ServiceDone(v) == {i \in RateCallsOn(v) : rate[i].path = "service" /\ rate[i].pc = "done"}
Latest(S) == CHOOSE i \in S : \A j \in S : j <= i
DoneBy(v, u) == {i \in ServiceDone(v) : rate[i].user = u}
RefValue(v, u) == IF DoneBy(v, u) = {} THEN 0 ELSE rate[Latest(DoneBy(v, u))].rating
RefUsers(v) == {u \in Users : DoneBy(v, u) # {}}

RECURSIVE RefSum(_, _)
RefSum(v, us) ==
    IF us = {} THEN 0
    ELSE LET u == CHOOSE x \in us : TRUE
         IN  RefValue(v, u) + RefSum(v, us \ {u})

AggregateColumns == {"averageRating", "totalRatingsCount", "updatedAt"}
RatesQuiet(v) == \A i \in RateCallsOn(v) : ~InFlight(rate[i])

\* C6: after rate_video calls run one at a time, every user has one row holding
\* the user's latest value, and the aggregate the last call computed, and the
\* one stored where the store has the columns, is the count and the sum/count of
\* those values.
C6_SequentialAggregate ==
    "rate" \notin overlap =>
        \A v \in VideoIds :
            (ServiceDone(v) # {} /\ RatesQuiet(v)) =>
                LET last == Latest(ServiceDone(v))
                    n == Cardinality(RefUsers(v))
                    sum == RefSum(v, RefUsers(v))
                IN  /\ \A u \in Users : ratingsByUser[<<v, u>>] = RefValue(v, u)
                    /\ rate[last].n = n /\ rate[last].s = sum
                    /\ AcceptsColumns(AggregateColumns) =>
                          /\ videos[v].totalRatingsCount = n
                          /\ videos[v].averageRating = <<sum, n>>

\* One user rated twice, with different values, one call after the other.
C6_ReRated ==
    /\ "rate" \notin overlap
    /\ \E v \in VideoIds : \E i, j \in ServiceDone(v) :
          /\ i < j /\ rate[i].user = rate[j].user /\ rate[i].rating # rate[j].rating
          /\ RatesQuiet(v)
          /\ videos[v].totalRatingsCount = 1
          /\ videos[v].averageRating = <<rate[j].rating, 1>>

CatalogDone(v) == {i \in RateCallsOn(v) : rate[i].path = "catalog" /\ rate[i].pc = "done"}

\* C7: through record_rating and get_rating_summary, calls run one at a time
\* leave ratingCount equal to the number of per-user rows and the total equal
\* to their sum: a re-rating neither counts twice nor adds on top.
C7_ReRatingCountedOnce ==
    "rate" \notin overlap =>
        \A v \in VideoIds :
            (CatalogDone(v) # {} /\ \A i \in RateCallsOn(v) : rate[i].pc = "done") =>
                /\ get_rating_summary(v).ratingCount = Cardinality(RowsOf(v))
                /\ get_rating_summary(v).averageRating
                      = <<SumOver(v, RowsOf(v)), Cardinality(RowsOf(v))>>

\* C8: once all concurrent rate_video calls on a video have completed, the
\* stored aggregate is the count and the sum/count of the rows that exist.
C8_AggregateMatchesEntries ==
    \A v \in VideoIds :
        (ServiceDone(v) # {} /\ RatesQuiet(v) /\ AcceptsColumns(AggregateColumns)) =>
            /\ videos[v].totalRatingsCount = Cardinality(RowsOf(v))
            /\ videos[v].averageRating = <<SumOver(v, RowsOf(v)), Cardinality(RowsOf(v))>>

\* C9: when RecordView calls run one after the other, the fallback leaves what
\* $inc leaves: views is the number of calls that have written, so n calls
\* raise it by n.
C9_SequentialEqualsAtomic ==
    (supportsInc \/ "view" \notin overlap) =>
        \A v \in VideoIds :
            videos[v].views = Cardinality({i \in ViewCallsOn(v) : HasWritten(i)})

\* Two fallback calls, one after the other, from 0: views is 2.
C9_TwoSequentialViews ==
    /\ ~supportsInc /\ "view" \notin overlap
    /\ \E v \in VideoIds :
          /\ Cardinality({i \in ViewCallsOn(v) : view[i].pc = "done"}) = 2
          /\ \A i \in ViewCallsOn(v) : view[i].pc = "done"
          /\ videos[v].views = 2

\* C10: a Submit whose URL has no supported shape answers 400 and performs no
\* insert: no table changes.
C10_InvalidUrlRejected ==
    [][(calls' = calls + 1 /\ submitLog'.call = calls' /\ submitLog'.url \in InvalidUrls) =>
          /\ submitLog'.code = HTTP_400_BAD_REQUEST
          /\ submitLog'.inserts = 0
          /\ UNCHANGED <<videos, latest, activity, ratingsByUser, ratingSummary>>]_vars

\* A Submit with an unsupported URL has been answered.
C10_Rejected ==
    /\ submitLog.url \in InvalidUrls
    /\ submitLog.code = HTTP_400_BAD_REQUEST
    /\ \A v \in VideoIds : ~videos[v].exists

\* A step of submit_new_video that stored a row: the call's ordinal is the newest.
SubmitStored ==
    /\ calls' = calls + 1
    /\ submitLog'.call = calls'
    /\ submitLog'.code = HTTP_202_ACCEPTED

\* C11: Submit persists status READY only when metadata was resolved inline
\* during that Submit; with inline metadata disabled the row is persisted
\* PENDING or ERROR, never READY.
C11_ReadyOnlyIfResolvedInline ==
    [][SubmitStored =>
          LET st == videos'[submitLog'.videoid].status
          IN  /\ st = READY => (~inlineDisabled /\ ~isMock)
              /\ inlineDisabled => st \in {PENDING, ERROR}]_vars

\* The names submit_new_video gives a row when the caller supplied no title.
TitlelessNames == {"Untitled Video"} \cup {m.title : m \in {x \in InlineMetaResults : x.ok}}

\* The only pass for v has fetched and completed on a row whose name came from a
\* Submit without title, and no owner edit has renamed the row.
PassCompletedOnTitleless(v, p) ==
    /\ PassesOn(v) = {p}
    /\ pass[p].pc = "done" /\ pass[p].fetched
    /\ pass[p].existing.exists /\ pass[p].existing.name \in TitlelessNames
    /\ videos[v].name # OwnerValue.name

\* C12: after a Submit without title has created the row, a pass in which the
\* provider returns title T leaves the row READY (as read) with name = T.
C12_PassLeavesProviderTitle ==
    \A v \in VideoIds, p \in PassIds :
        (PassCompletedOnTitleless(v, p) /\ pass[p].details.found /\ pass[p].details.title = "T")
            => /\ StatusRead(videos[v]) = READY
               /\ videos[v].name = "T"

DescriptiveFields == {"name", "description", "preview_image_location", "tags"}

\* A step in which pass p performs one of its two update_one calls.
PassWrites(p) == pass'[p].writes = pass[p].writes + 1

\* C13: a write of a pass changes a descriptive field only if the field was
\* empty in the row the pass read, and then to the provider's non-empty value.
C13_PassOnlyFillsEmptyFields ==
    [][\A p \in PassIds :
          PassWrites(p) =>
              \A k \in DescriptiveFields :
                  LET v == pass[p].vid
                  IN  videos'[v][k] # videos[v][k] =>
                         /\ pass[p].existing[k] = ""
                         /\ videos'[v][k] # ""
                         /\ videos'[v][k] = SourceOf(pass[p].details)[k]]_vars

\* What pass p sends in the write it is about to make.
PendingSet(p) ==
    SentSet(IF pass[p].pc = "interim"
            THEN update_payload(pass[p].existing, pass[p].details)
            ELSE final_payload(pass[p].existing, pass[p].details))

\* C14: nothing guards a pass's write against an edit made since its find_one:
\* every write of a pass sets each field it sends to the value computed from
\* the row as read, whatever the row holds by then; so a pass that overlaps an
\* owner's edit can replace the edited value by the provider's.
C14_PassWriteIsUnguarded ==
    [][\A p \in PassIds :
          PassWrites(p) =>
              LET v == pass[p].vid
                  sent == PendingSet(p)
              IN  \A k \in DOMAIN sent \cap DOMAIN videos[v] : videos'[v][k] = sent[k]]_vars

\* On a real store the owner's description, stored after the pass read the
\* row, has been replaced by the description the provider returned.
C14_OwnerEditOverwritten ==
    \E v \in VideoIds, p \in PassIds :
        /\ ~isMock
        /\ pass[p].vid = v /\ pass[p].fetched
        /\ "description" \in pass[p].lost
        /\ pass[p].existing.description = ""
        /\ pass[p].details.description # ""
        /\ videos[v].description = pass[p].details.description

\* C15: a pass never ends in a raised exception; a pass that failed (the
\* provider returned nothing, or the row was not found) ends with the row, if
\* there is one, reading ERROR.
C15_PassNeverRaises ==
    \A p \in PassIds :
        /\ pass[p].pc # "raised"
        /\ (pass[p].pc = "done" /\ pass[p].fetched /\ ~pass[p].details.found
              /\ PassesOn(pass[p].vid) = {p})
           => StatusRead(videos[pass[p].vid]) = ERROR

\* C16: a row stored without the status key is READY to every reader; in
\* particular a pass whose find_one sees such a row takes it for READY and
\* returns without calling the provider or writing.
C16_MissingStatusReadsReady ==
    [][\A p \in PassIds :
          (pass[p].pc = "idle" /\ pass'[p].pc # "idle"
             /\ videos[pass'[p].vid].exists
             /\ StatusRead(videos[pass'[p].vid]) = READY)
          => (pass'[p].pc = "done" /\ ~pass'[p].fetched /\ pass'[p].writes = 0)]_vars

\* C17: RecordView and RateVideo succeed when the video row or the aggregate
\* row does not exist yet: no call ends in an error over a row that is missing.
C17_UpsertSemantics ==
    /\ \A i \in ViewIds : view[i].pc # "raised"
    /\ \A i \in RateIds :
          rate[i].pc = "raised" =>
              /\ videos[rate[i].vid].exists
              /\ rate[i].path = "catalog" => ratingSummary[rate[i].vid].exists

\* C18: with a key configured the Data API is tried first and every failure of
\* that call, a reply without title included, leads to the oEmbed fallback;
\* without a key the Data API is never called.
C18_FallbackOnAnyFailure ==
    [][/\ (resolve'.pc \in {"v3", "oembed"} /\ resolve.pc \in {"idle", "done"})
             => (resolve'.pc = "v3" <=> resolve'.api_key)
       /\ (resolve.pc = "v3" /\ resolve'.pc # "v3" /\ resolve'.v3 # "ok")
             => resolve'.pc = "oembed"
       /\ ~resolve'.api_key => resolve'.v3 = ""]_vars

\* C19: a finished call has returned metadata with a non-empty title or raised
\* MetadataFetchError, and it raised only if the oEmbed call failed after the
\* Data API call, when there was one, had failed too.
C19_TitleOrMetadataFetchError ==
    resolve.pc = "done" =>
        LET r == resolve.result
        IN  \/ ~r.raised /\ r.meta.title # ""
            \/ /\ r.raised /\ r.error = "MetadataFetchError"
               /\ resolve.oembed \in OEmbedReplies \ {"ok"}
               /\ resolve.api_key => resolve.v3 \in V3Replies \ {"ok"}

\* C20: a semantic Search with page >= 1 and pageSize >= 1 (and a query that
\* can be embedded) asks the store for pageSize * 3 * page rows by similarity,
\* drops those under the threshold, and returns the survivors at positions
\* [(page-1)*pageSize, page*pageSize) in store order, with totalMatched the
\* number of survivors in the fetched window.
C20_SemanticSearchPage ==
    (/\ search.via = "service"
     /\ Embeddable(search.query)
     /\ search.page >= 1
     /\ search.page_size >= 1)
    => LET window == VectorFind(search.ranked, search.page_size * 3 * search.page)
           survivors == AtLeast(window, search.similarity_threshold)
           first == (search.page - 1) * search.page_size
       IN  /\ ~search.out.raised
           /\ search.out.limit = search.page_size * 3 * search.page
           /\ search.out.total = Len(survivors)
           /\ search.out.items =
                [i \in 1..(IF Len(survivors) - first < search.page_size
                           THEN (IF Len(survivors) > first THEN Len(survivors) - first ELSE 0)
                           ELSE search.page_size) |-> survivors[first + i].rank]

\* C21: for one query and one fetched window the candidates the search keeps
\* are monotone in the threshold: threshold 0 discards nothing, and whatever
\* is kept at a threshold is kept at every lower one.
Kept(t) ==
    LET docs == Trim(VectorFind(search.ranked, search.out.limit), t)
    IN  {docs[i].rank : i \in DOMAIN docs}

C21_TrimMonotoneInThreshold ==
    (/\ search.via = "helper"
     /\ search.page >= 1
     /\ search.page_size >= 1)
    => /\ search.out.total = Cardinality(Kept(search.similarity_threshold))
       /\ Kept(0) = 1..Len(VectorFind(search.ranked, search.out.limit))
       /\ \A t \in Thresholds :
            /\ t <= search.similarity_threshold => Kept(search.similarity_threshold) \subseteq Kept(t)
            /\ t >= search.similarity_threshold => Kept(t) \subseteq Kept(search.similarity_threshold)

\* A search whose threshold dropped part of the window and kept the rest.
C21_PartOfWindowTrimmed ==
    /\ search.via = "helper"
    /\ search.similarity_threshold = 5
    /\ search.out.limit = 3
    /\ search.ranked = <<9, 5, 0, 0>>
    /\ search.out.total = 2

\* C22: search_videos_by_semantic answers a query of more than the token limit
\* with HTTP 400 and queries no store for it; a query within the limit is not
\* rejected for its length.
C22_LongQueryRejected ==
    search.via = "service" =>
        /\ Len(findall(search.query)) > MAX_TOKENS =>
              /\ search.out.raised
              /\ search.out.error = "HTTP_400_BAD_REQUEST"
              /\ search.out.limit = 0
        /\ (Len(findall(search.query)) <= MAX_TOKENS /\ ~IsBlank(search.query)) =>
              search.out.error # "HTTP_400_BAD_REQUEST"

\* C23: a keyword Search (mode keyword, or semantic switched off) matches
\* through the offset-paginated listing, limit = pageSize, with an exact total
\* count; it embeds no query and sends no similarity-ranked query.
C23_KeywordSearchIsPlainListing ==
    (/\ search.via = "keyword"
     /\ ~IsBlank(search.query)
     /\ search.page >= 1
     /\ search.page_size >= 1)
    => /\ search.embedded = <<>>
       /\ ~search.out.raised
       /\ search.out.limit = search.page_size
       /\ search.out.total = Len(search.ranked)

\* C24: each handler degrades only the rejection that belongs to its operation:
\* UNKNOWN_TABLE_COLUMNS on Submit's insert gives exactly one retry with the safe
\* document, an unsupported $inc gives find_one and $set, an unsupported count
\* gives the length of the fetched page; every other error of the first call
\* leaves the function as it is, with no further store call.
OwnRejections ==
    [insert |-> {"UNKNOWN_TABLE_COLUMNS"},
     increment |-> {"Update operation not supported", "unsupported operations"},
     count |-> {"UNSUPPORTED_TABLE_COMMAND"}]

C24_OnlyOwnRejectionDegraded ==
    degrade.out.op # "none" =>
        LET first == degrade.replies[1]
            out == degrade.out
        IN  /\ (out.op = "insert" /\ first \in OwnRejections.insert) =>
                  out.sent = <<"insert_one:full", "insert_one:safe">>
            /\ (out.op = "increment" /\ first \in OwnRejections.increment) =>
                  /\ SubSeq(out.sent, 1, 2) = <<"update_one:$inc", "find_one">>
                  /\ degrade.replies[2] = "ok" => out.sent[3] = "update_one:$set"
            /\ (out.op = "count" /\ first \in OwnRejections.count) =>
                  out.error = "" /\ out.value = degrade.fallback_len
            /\ (out.op = "count" /\ first = "ok") =>
                  out.error = "" /\ out.value = degrade.matching
            /\ (first # "ok" /\ first \notin OwnRejections[out.op]) =>
                  out.error = first /\ Len(out.sent) = 1

\* C25: an update_video_details step changes, in the row it names, exactly the
\* supplied ones of name, description and tags, to the supplied values; status,
\* views, the rating aggregates and every other column and table stay as they
\* were; a request without fields sends no write.
UpdateStep == calls' = calls + 1 /\ UNCHANGED <<submitLog, pass, view, rate>>

C25_UpdateChangesOnlySuppliedFields ==
    [][UpdateStep =>
          /\ edit'.fields \subseteq {"name", "description", "tags"}
          /\ \A v \in VideoIds : v # edit'.vid => videos'[v] = videos[v]
          /\ \A f \in DOMAIN videos[edit'.vid] :
                videos'[edit'.vid][f] =
                    IF f \in edit'.fields THEN OwnerValue[f] ELSE videos[edit'.vid][f]
          /\ edit'.fields = {} => (edit'.writes = 0 /\ videos' = videos)
          /\ UNCHANGED <<latest, activity, ratingsByUser, ratingSummary>>]_vars

\* An edit of the description alone has changed a row that a pass had
\* already worked on.
C25_DescriptionEdited ==
    /\ edit.vid = 1
    /\ edit.fields = {"description"}
    /\ edit.writes = 1
    /\ videos[1].description = OwnerValue.description
    /\ videos[1].name # OwnerValue.name
    /\ \E p \in PassIds : pass[p].pc = "done"

\* C26: for each of the five URL shapes and each id of eleven characters of the
\* class, with or without http:// or https:// and with or without www.,
\* extraction gives exactly that id; a URL of no supported shape gives none.
C26_SameIdForEverySchemeAndHost ==
    extract.called =>
        /\ \A s \in OptScheme, w \in OptWww, i \in DOMAIN _YOUTUBE_PATTERNS,
              id \in SomeIds, t \in Tails :
                extract.url = ShapedUrl(s, w, i, id, t) => extract.id = id
        /\ extract.url \in ShapelessUrls => extract.id = None

\* A shorts URL without scheme and with www. was given and its id extracted.
C26_ShortsUrlExtracted ==
    /\ extract.called
    /\ extract.url = <<"www.", "youtube.com/", "shorts/">> \o Id11
    /\ extract.id = Id11

\* C27: both clips return a text within the token limit unchanged and a longer
\* one as its first MAX_TOKENS tokens, in order, with exactly one blank between
\* neighbours and none elsewhere; the two clips agree on every non-empty text.
BlankCount(text) == Cardinality({i \in DOMAIN text : text[i] \in Blanks})

C27_ClipKeepsFirstTokens ==
    clip.pc = "both" =>
        LET tokens == findall(clip.text)
        IN  /\ Len(tokens) <= MAX_TOKENS => clip.shared = clip.text
            /\ Len(tokens) > MAX_TOKENS =>
                  /\ findall(clip.shared) = SubSeq(tokens, 1, MAX_TOKENS)
                  /\ BlankCount(clip.shared) = MAX_TOKENS - 1
                  /\ \A i \in 1..(Len(clip.shared) - 1) :
                        ~(clip.shared[i] \in Blanks /\ clip.shared[i + 1] \in Blanks)
                  /\ clip.shared[1] \notin Blanks
                  /\ clip.shared[Len(clip.shared)] \notin Blanks
            /\ clip.text # <<>> => clip.service = clip.shared

\* A text of more tokens than the limit, with irregular spacing, went through
\* both clips and came out shorter.
C27_LongTextClipped ==
    /\ clip.pc = "both"
    /\ Len(findall(clip.text)) > MAX_TOKENS
    /\ \E i \in 1..(Len(clip.text) - 1) : clip.text[i] \in Blanks /\ clip.text[i + 1] \in Blanks
    /\ \E i \in 1..(Len(clip.text) - 1) : clip.text[i] = "a" /\ clip.text[i + 1] = "."
    /\ clip.service # clip.text
    /\ clip.service = clip.shared

\* C28: a pass that found its record not READY writes in this order: with
\* details from the provider exactly two updates, the first setting status
\* PROCESSING together with the provider's title, the second setting READY;
\* without details exactly one update, setting ERROR.
Sets(p, field, value) == field \in DOMAIN PendingSet(p) /\ PendingSet(p)[field] = value

C28_PassWritesInOrder ==
    [][\A p \in PassIds :
          PassWrites(p) =>
              IF pass[p].details.found
              THEN /\ pass[p].writes = 0 =>
                         /\ Sets(p, "status", PROCESSING)
                         /\ Sets(p, "name", pass[p].details.title)
                         /\ pass'[p].pc # "done"
                   /\ pass[p].writes = 1 => (Sets(p, "status", READY) /\ pass'[p].pc = "done")
                   /\ pass[p].writes < 2
              ELSE /\ pass[p].writes = 0
                   /\ Sets(p, "status", ERROR)
                   /\ pass'[p].pc = "done"]_vars

\* C29: a Submit whose inline fetch_youtube_metadata ends in MetadataFetchError
\* (which takes inline metadata enabled) answers 502, not 400 or 404, and
\* creates nothing: no insert into videos or latest_videos, no id for a
\* background pass, no pass started.
HTTP_404_NOT_FOUND == 404

C29_ResolveFailureIsBadGateway ==
    [][(calls' = calls + 1 /\ submitLog'.call = calls'
          /\ submitLog'.meta = "MetadataFetchError") =>
          /\ ~inlineDisabled
          /\ submitLog'.code = HTTP_502_BAD_GATEWAY
          /\ submitLog'.code \notin {HTTP_400_BAD_REQUEST, HTTP_404_NOT_FOUND}
          /\ submitLog'.inserts = 0
          /\ submitLog'.videoid = 0
          /\ UNCHANGED <<videos, latest, pass>>]_vars

\* A Submit with a well-formed URL has failed on the resolver, after an
\* earlier Submit had created a row.
C29_SubmitFailedOnResolve ==
    /\ submitLog.meta = "MetadataFetchError"
    /\ submitLog.code = HTTP_502_BAD_GATEWAY
    /\ submitLog.url \in ValidUrls
    /\ submitLog.call = 2
    /\ \E v \in VideoIds : videos[v].exists

\* C30: on a store that is not a test double, every $set a pass or an owner's
\* update sends names only columns of _VIDEO_TABLE_ALLOWED_COLUMNS, never
\* status, updatedAt or youtubeVideoId, and no step of a pass changes the
\* stored status of any row.
NeverWritten == {"status", "updatedAt", "youtubeVideoId"}

C30_RealStoreWritesStayInSchema ==
    [][~isMock =>
          /\ \A p \in PassIds :
                PassWrites(p) =>
                    /\ DOMAIN PendingSet(p) \subseteq _VIDEO_TABLE_ALLOWED_COLUMNS
                    /\ DOMAIN PendingSet(p) \cap NeverWritten = {}
          /\ pass' # pass => \A v \in VideoIds : videos'[v].status = videos[v].status
          /\ UpdateStep =>
                /\ edit'.sent \subseteq _VIDEO_TABLE_ALLOWED_COLUMNS
                /\ edit'.sent \cap NeverWritten = {}
                /\ \A f \in NeverWritten \cap DOMAIN videos[edit'.vid] :
                      videos'[edit'.vid][f] = videos[edit'.vid][f]]_vars

\* On a real store a pass has sent both of its updates and an owner's edit has
\* been written, and the row's status is the one the pass read.
C30_PassAndEditWroteOnRealStore ==
    \E p \in PassIds :
        /\ ~isMock
        /\ pass[p].pc = "done" /\ pass[p].writes = 2
        /\ edit.vid = pass[p].vid /\ edit.writes = 1
        /\ videos[pass[p].vid].status = pass[p].existing.status
        /\ videos[pass[p].vid].description # ""

====
